---- MODULE Spec2Model ----
(***************************************************************************)
(* Model of pkg/workflows/steps/amazon/delete_machine.go: the workflow     *)
(* step DeleteNodeStep that removes a node's EC2 instances and cancels     *)
(* their spot requests.  One invocation of Run is followed statement by    *)
(* statement; every call on the EC2 service is split into the moment the   *)
(* call is issued and the moment it returns, so that the caller's context  *)
(* can be cancelled while the call is in flight.                           *)
(***************************************************************************)
EXTENDS Integers, Sequences, FiniteSets, TLC

\* ------------------------------------------------------------------ bounds
\* largest number of reservations in a DescribeInstancesOutput
MaxReservations == 2
\* largest number of instances in a DescribeInstancesOutput, over all its
\* reservations
MaxMatched == 2
\* how many times the engine may call Rollback
MaxRollbacks == 1
\* how many invocations of Run the engine starts on one provider
MaxRuns == 2

\* ----------------------------------------------------------- value domains
\* a nil *string / nil pointer
Nil == "<nil>"

\* cfg.Node.Name of the invocation
NodeNames == {"worker-3", "worker-9"}

\* values of ec2.Instance.InstanceId that are set
InstanceIdSet == {"i-1", "i-2"}

\* values of ec2.Instance.SpotInstanceRequestId that are set
SpotRequestIdSet == {"sir-1"}

\* the step's registered name
DeleteNodeStepName == "aws_delete_node"

\* ---------------------------------------------------------------- errors
\* An error value is its root cause (what errors.Cause yields) and the
\* segments of its Error() text, outermost first (joined by ": " in Go).
NilErr == [cause |-> Nil, text |-> <<>>]

\* Run has not returned yet
NotReturned == [cause |-> "<pending>", text |-> <<>>]

\* errors.New(text)
NewError(t) == [cause |-> t, text |-> <<t>>]

\* package-level sentinel errors of package amazon
ErrAuthorization == NewError("ErrAuthorization")

ErrDeleteNode == NewError("ErrDeleteNode")

\* errors the EC2 session constructor can return
ConstructErrs == {NewError("NoCredentialProviders")}

\* the error an SDK call returns when its context is cancelled or times out
ErrRequestCanceled == NewError("RequestCanceled")

\* other errors a call on the EC2 service can return
ServiceErrs == {NewError("RequestLimitExceeded")}

\* errors.Wrap(err, message) / errors.Wrapf: nil stays nil, the cause is kept,
\* the message is put in front of the text
Wrap(err, message) ==
    IF err = NilErr THEN NilErr
    ELSE [cause |-> err.cause, text |-> message \o err.text]

\* ------------------------------------------------------- lookup results
\* ec2.Instance: both fields are *string
Instances == [InstanceId : InstanceIdSet \cup {Nil},
              SpotInstanceRequestId : SpotRequestIdSet \cup {Nil}]

SeqsUpTo(S, n) == UNION {[1..k -> S] : k \in 0..n}

RECURSIVE ReservationSeqs(_, _)
\* the sequences of n values of ec2.Reservation that hold at most t instances
\* together
ReservationSeqs(n, t) ==
    IF n = 0 THEN {<<>>}
    ELSE UNION {{<<[Instances |-> insts]>> \o rest :
                    rest \in ReservationSeqs(n - 1, t - Len(insts))} :
                insts \in SeqsUpTo(Instances, t)}

\* a nil *ec2.DescribeInstancesOutput
NilOutput == [isNil |-> TRUE, Reservations |-> <<>>]

\* what DescribeInstancesWithContext can return beside a nil error
DescribeOutputs ==
    {NilOutput} \cup
    {[isNil |-> FALSE, Reservations |-> ress] :
        ress \in UNION {ReservationSeqs(n, MaxMatched) :
                           n \in 0..MaxReservations}}

VARIABLES
    pc,               \* position of the invocation of Run
    nodeName,         \* cfg.Node.Name
    svc,              \* the instanceDeleter returned by getSvc, or Nil
    svcErr,           \* error returned by getSvc
    ctxDoneAt,        \* position of Run when ctx was cancelled, or "never"
    describeInstanceOutput,  \* result of the lookup
    lookupErr,        \* error returned by DescribeInstancesWithContext
    termErr,          \* error returned by TerminateInstancesWithContext
    cancelErr,        \* error returned by CancelSpotInstanceRequestsWithContext
    instanceIDS,      \* local of Run
    spotRequestIDs,   \* local of Run
    calls,            \* calls issued so far: constructor and EC2 service
    ret,              \* value returned by Run
    rollbacks,        \* number of Rollback calls
    rollbackRet,      \* value returned by the last Rollback
    sink,             \* lines written to the output sink w
    logged,           \* lines written through logrus' standard logger
    cloud0,           \* the provider's instances before any invocation
    cloud,            \* the provider's running instances
    spotRequests,     \* the provider's open spot requests
    runs              \* the invocations of Run on that provider

runVars == <<pc, nodeName, svc, svcErr, ctxDoneAt, describeInstanceOutput, lookupErr,
          termErr, cancelErr, instanceIDS, spotRequestIDs, calls, ret,
          rollbacks, rollbackRet, sink,
          logged>>

fleetVars == <<cloud0, cloud, spotRequests, runs>>

vars == <<runVars, fleetVars>>

\* no provider and no further invocation: one invocation on its own
NoFleet ==
    /\ cloud0 = {}
    /\ cloud = {}
    /\ spotRequests = {}
    /\ runs = <<>>

\* one invocation of Run about to start
InitRun ==
    /\ pc = "Start"
    /\ nodeName \in NodeNames
    /\ svc = Nil
    /\ svcErr = NilErr
    /\ ctxDoneAt = "never"
    /\ describeInstanceOutput = NilOutput
    /\ lookupErr = NilErr
    /\ termErr = NilErr
    /\ cancelErr = NilErr
    /\ instanceIDS = <<>>
    /\ spotRequestIDs = <<>>
    /\ calls = <<>>
    /\ ret = NotReturned
    /\ rollbacks = 0
    /\ rollbackRet = NotReturned
    /\ sink = <<>>
    /\ logged = <<>>

Init == InitRun /\ NoFleet

\* ------------------------------------------------------- helpers of Run
\* one entry of the call log
Call(op, arg) == [op |-> op, arg |-> arg]

\* the closure NewDeleteNode stores in getSvc: fn's error is wrapped in
\* ErrAuthorization, otherwise fn's client is passed on
getSvc(fnSvc, fnErr) ==
    IF fnErr # NilErr
    THEN [svc |-> Nil, err |-> Wrap(ErrAuthorization, fnErr.text)]
    ELSE [svc |-> fnSvc, err |-> NilErr]

\* what Run returns when getSvc failed
AuthorizationFailure(err) == Wrap(ErrAuthorization, err.text)

\* LookupFailure that wraps the wrong sentinel
LookupFailureAsAuthorization(err) == Wrap(ErrAuthorization, err.text)

\* LookupFailure that wraps a nil error, which errors.Wrap turns into nil
LookupFailureWrapsNil(err) == Wrap(NilErr, err.text)

\* what Run returns when the lookup failed
LookupFailure(err) == Wrap(ErrDeleteNode, err.text)

\* TerminateFailure that wraps the lookup's sentinel instead of the cause
TerminateFailureAsDeleteNode(err) == Wrap(ErrDeleteNode, err.text)

\* what Run returns when the termination failed
TerminateFailure(err) ==
    Wrap(err, <<DeleteNodeStepName \o " terminate instance">>)

\* AppendSpot without the nil test: the field is appended as it is
AppendSpotUnchecked(spots, instance) ==
    Append(spots, instance.SpotInstanceRequestId)

\* the spot request id of an instance is appended when it is set
AppendSpot(spots, instance) ==
    IF instance.SpotInstanceRequestId # Nil
    THEN Append(spots, instance.SpotInstanceRequestId)
    ELSE spots

\* CollectInstance that assigns the slice instead of appending to it
CollectInstanceAssign(acc, instance) ==
    IF instance.InstanceId = Nil
    THEN [acc EXCEPT !.panic = TRUE]
    ELSE [ids   |-> <<instance.InstanceId>>,
          spots |-> AppendSpot(acc.spots, instance),
          panic |-> FALSE]

\* body of the inner loop; dereferencing a nil InstanceId panics
CollectInstance(acc, instance) ==
    IF instance.InstanceId = Nil
    THEN [acc EXCEPT !.panic = TRUE]
    ELSE [ids   |-> Append(acc.ids, instance.InstanceId),
          spots |-> AppendSpot(acc.spots, instance),
          panic |-> FALSE]

RECURSIVE RangeInstances(_, _)
\* for _, instance := range res.Instances
RangeInstances(acc, insts) ==
    IF acc.panic \/ insts = <<>> THEN acc
    ELSE RangeInstances(CollectInstance(acc, Head(insts)), Tail(insts))

RECURSIVE RangeReservations(_, _)
\* for _, res := range describeInstanceOutput.Reservations
RangeReservations(acc, ress) ==
    IF acc.panic \/ ress = <<>> THEN acc
    ELSE RangeReservations(RangeInstances(acc, Head(ress).Instances),
                           Tail(ress))

\* the two slices built from the lookup's output; reading Reservations of a
\* nil output panics
Collect(out) ==
    IF out.isNil THEN [ids |-> <<>>, spots |-> <<>>, panic |-> TRUE]
    ELSE RangeReservations([ids |-> <<>>, spots |-> <<>>, panic |-> FALSE],
                           out.Reservations)

\* NoneFound that never detects the empty slice
NoneFoundNever(ids) == Len(ids) < 0

\* the test that makes Run return nil without further calls
NoneFound(ids) == Len(ids) = 0

\* errors a call on the EC2 service can return now: the context error only
\* once the context is done
CallErrs ==
    ServiceErrs \cup (IF ctxDoneAt # "never" THEN {ErrRequestCanceled} ELSE {})

\* util.GetLogger(w): a logger whose output is the sink w
GetLogger(w) == w

\* log.Infof on that logger: one more line in the sink
Infof(log, line) == Append(log, line)

\* the line Run writes to the sink before it returns nil at the end
FinishedLine == "[" \o DeleteNodeStepName \o "] - finished successfully"

\* ---------------------------------------------------------------- actions
\* Run calls getSvc, whose fn yields the EC2 client or an error, and returns
\* on an error
RunGetSvc ==
    /\ pc = "Start"
    /\ \E fnErr \in ConstructErrs \cup {NilErr} :
          LET r == getSvc("ec2", fnErr) IN
          /\ calls' = Append(calls, Call("GetEC2", <<>>))
          /\ svcErr' = r.err
          /\ IF r.err # NilErr
             THEN /\ pc' = "Done"
                  /\ ret' = AuthorizationFailure(r.err)
                  /\ svc' = r.svc
                  /\ logged' = logged \o <<"deleting node",
                                            "Error getting service">>
             ELSE /\ pc' = "GatewayReady"
                  /\ ret' = ret
                  /\ svc' = r.svc
                  /\ logged' = Append(logged, "deleting node")
    /\ UNCHANGED <<sink, nodeName, ctxDoneAt, describeInstanceOutput, lookupErr,
                   termErr, cancelErr, instanceIDS, spotRequestIDs,
                   rollbacks, rollbackRet>>
    /\ UNCHANGED fleetVars

\* svc.DescribeInstancesWithContext is called with one filter, the node name
\* tag, whose only value is cfg.Node.Name
DescribeCall ==
    /\ pc = "GatewayReady"
    /\ pc' = "Describing"
    /\ calls' = Append(calls, Call("DescribeInstances", <<nodeName>>))
    /\ UNCHANGED <<logged, sink, nodeName, svc, svcErr, ctxDoneAt, describeInstanceOutput,
                   lookupErr, termErr, cancelErr, instanceIDS,
                   spotRequestIDs, ret, rollbacks, rollbackRet>>
    /\ UNCHANGED fleetVars

\* DescribeReturn that asks again when the lookup failed
DescribeReturnRetries ==
    /\ pc = "Describing"
    /\ \/ \E err \in CallErrs :
             /\ lookupErr' = err
             /\ ret' = ret
             /\ pc' = "GatewayReady"
             /\ UNCHANGED <<describeInstanceOutput, instanceIDS,
                            spotRequestIDs, logged>>
       \/ \E out \in DescribeOutputs :
             LET c == Collect(out) IN
             /\ lookupErr' = NilErr
             /\ describeInstanceOutput' = out
             /\ instanceIDS' = c.ids
             /\ spotRequestIDs' = c.spots
             /\ IF c.panic
                THEN pc' = "Panicked" /\ ret' = ret /\ logged' = logged
                ELSE IF NoneFound(c.ids)
                THEN /\ pc' = "Done"
                     /\ ret' = NilErr
                     /\ logged' = Append(logged, "node not found in cluster")
                ELSE pc' = "InstancesResolved" /\ ret' = ret
                     /\ logged' = logged
    /\ UNCHANGED <<sink, nodeName, svc, svcErr, ctxDoneAt, termErr,
                   cancelErr, calls, rollbacks, rollbackRet>>
    /\ UNCHANGED fleetVars

\* the lookup returns; Run checks the error, collects the identifiers and
\* returns nil when there are none
DescribeReturn ==
    /\ pc = "Describing"
    /\ \/ \E err \in CallErrs :
             /\ lookupErr' = err
             /\ ret' = LookupFailure(err)
             /\ pc' = "Done"
             /\ UNCHANGED <<describeInstanceOutput, instanceIDS,
                            spotRequestIDs, logged>>
       \/ \E out \in DescribeOutputs :
             LET c == Collect(out) IN
             /\ lookupErr' = NilErr
             /\ describeInstanceOutput' = out
             /\ instanceIDS' = c.ids
             /\ spotRequestIDs' = c.spots
             /\ IF c.panic
                THEN pc' = "Panicked" /\ ret' = ret /\ logged' = logged
                ELSE IF NoneFound(c.ids)
                THEN /\ pc' = "Done"
                     /\ ret' = NilErr
                     /\ logged' = Append(logged, "node not found in cluster")
                ELSE pc' = "InstancesResolved" /\ ret' = ret
                     /\ logged' = logged
    /\ UNCHANGED <<sink, nodeName, svc, svcErr, ctxDoneAt, termErr, cancelErr, calls,
                   rollbacks, rollbackRet>>
    /\ UNCHANGED fleetVars

\* svc.TerminateInstancesWithContext is called with the collected ids
TerminateCall ==
    /\ pc = "InstancesResolved"
    /\ pc' = "Terminating"
    /\ calls' = Append(calls, Call("TerminateInstances", instanceIDS))
    /\ UNCHANGED <<logged, sink, nodeName, svc, svcErr, ctxDoneAt, describeInstanceOutput,
                   lookupErr, termErr, cancelErr, instanceIDS,
                   spotRequestIDs, ret, rollbacks, rollbackRet>>
    /\ UNCHANGED fleetVars

\* TerminateReturn that only logs the error and goes on to the cancellation
TerminateReturnLogsOnly ==
    /\ pc = "Terminating"
    /\ \E err \in CallErrs \cup {NilErr} : termErr' = err
    /\ ret' = ret
    /\ pc' = "InstancesTerminated"
    /\ UNCHANGED <<logged, sink, nodeName, svc, svcErr, ctxDoneAt, describeInstanceOutput,
                   lookupErr, cancelErr, instanceIDS, spotRequestIDs, calls,
                   rollbacks, rollbackRet>>
    /\ UNCHANGED fleetVars

\* the termination returns; an error is wrapped and returned
TerminateReturn ==
    /\ pc = "Terminating"
    /\ \/ \E err \in CallErrs :
             /\ termErr' = err
             /\ ret' = TerminateFailure(err)
             /\ pc' = "Done"
       \/ /\ termErr' = NilErr
          /\ ret' = ret
          /\ pc' = "InstancesTerminated"
    /\ UNCHANGED <<logged, sink, nodeName, svc, svcErr, ctxDoneAt, describeInstanceOutput,
                   lookupErr, cancelErr, instanceIDS, spotRequestIDs, calls,
                   rollbacks, rollbackRet>>
    /\ UNCHANGED fleetVars

\* CancelCall that leaves the call out when there is no spot request id
CancelCallSkipsEmpty ==
    /\ pc = "InstancesTerminated"
    /\ IF spotRequestIDs = <<>>
       THEN /\ pc' = "Done"
            /\ ret' = NilErr
            /\ sink' = Infof(GetLogger(sink), FinishedLine)
            /\ calls' = calls
       ELSE /\ pc' = "Cancelling"
            /\ ret' = ret
            /\ sink' = sink
            /\ calls' = Append(calls, Call("CancelSpotInstanceRequests",
                                           spotRequestIDs))
    /\ UNCHANGED <<logged, nodeName, svc, svcErr, ctxDoneAt,
                   describeInstanceOutput, lookupErr, termErr, cancelErr,
                   instanceIDS, spotRequestIDs, rollbacks, rollbackRet>>
    /\ UNCHANGED fleetVars

\* svc.CancelSpotInstanceRequestsWithContext is called with the spot ids
CancelCall ==
    /\ pc = "InstancesTerminated"
    /\ pc' = "Cancelling"
    /\ calls' = Append(calls,
                       Call("CancelSpotInstanceRequests", spotRequestIDs))
    /\ UNCHANGED <<logged, sink, nodeName, svc, svcErr, ctxDoneAt, describeInstanceOutput,
                   lookupErr, termErr, cancelErr, instanceIDS,
                   spotRequestIDs, ret, rollbacks, rollbackRet>>
    /\ UNCHANGED fleetVars

\* CancelReturn that returns the cancellation's error instead of logging it
CancelReturnFatal ==
    /\ pc = "Cancelling"
    /\ \E err \in CallErrs \cup {NilErr} :
          /\ cancelErr' = err
          /\ ret' = err
          /\ logged' = IF err # NilErr
                       THEN Append(logged, "cancel spot requests caused")
                       ELSE logged
    /\ sink' = Infof(GetLogger(sink), FinishedLine)
    /\ pc' = "Done"
    /\ UNCHANGED <<nodeName, svc, svcErr, ctxDoneAt, describeInstanceOutput,
                   lookupErr, termErr, instanceIDS, spotRequestIDs, calls,
                   rollbacks, rollbackRet>>
    /\ UNCHANGED fleetVars

\* the cancellation returns; its error is logged only, the success line is
\* written to the sink and Run returns nil
CancelReturn ==
    /\ pc = "Cancelling"
    /\ \E err \in CallErrs \cup {NilErr} :
          /\ cancelErr' = err
          /\ logged' = IF err # NilErr
                       THEN Append(logged, "cancel spot requests caused")
                       ELSE logged
    /\ ret' = NilErr
    /\ sink' = Infof(GetLogger(sink), FinishedLine)
    /\ pc' = "Done"
    /\ UNCHANGED <<nodeName, svc, svcErr, ctxDoneAt, describeInstanceOutput,
                   lookupErr, termErr, instanceIDS, spotRequestIDs, calls,
                   rollbacks, rollbackRet>>
    /\ UNCHANGED fleetVars

\* the caller's context is cancelled or its deadline passes
CtxCancel ==
    /\ ctxDoneAt = "never"
    /\ pc \notin {"Done", "Panicked"}
    /\ ctxDoneAt' = pc
    /\ UNCHANGED <<logged, sink, pc, nodeName, svc, svcErr, describeInstanceOutput, lookupErr,
                   termErr, cancelErr, instanceIDS, spotRequestIDs, calls,
                   ret, rollbacks, rollbackRet>>
    /\ UNCHANGED fleetVars

\* Rollback that asks again for the termination of the collected instances
RollbackTerminatesAgain ==
    /\ pc \in {"Start", "Done"}
    /\ rollbacks < MaxRollbacks
    /\ rollbacks' = rollbacks + 1
    /\ rollbackRet' = NilErr
    /\ calls' = Append(calls, Call("TerminateInstances", instanceIDS))
    /\ UNCHANGED <<logged, sink, pc, nodeName, svc, svcErr, ctxDoneAt,
                   describeInstanceOutput, lookupErr, termErr, cancelErr,
                   instanceIDS, spotRequestIDs, ret>>
    /\ UNCHANGED fleetVars

\* the engine calls Rollback, before Run or after Run has returned
Rollback ==
    /\ pc \in {"Start", "Done"}
    /\ rollbacks < MaxRollbacks
    /\ rollbacks' = rollbacks + 1
    /\ rollbackRet' = NilErr
    /\ UNCHANGED <<logged, sink, pc, nodeName, svc, svcErr, ctxDoneAt, describeInstanceOutput,
                   lookupErr, termErr, cancelErr, instanceIDS,
                   spotRequestIDs, calls, ret>>
    /\ UNCHANGED fleetVars

Next ==
    \/ RunGetSvc
    \/ DescribeCall
    \/ DescribeReturn
    \/ TerminateCall
    \/ TerminateReturn
    \/ CancelCall
    \/ CancelReturn
    \/ CtxCancel
    \/ Rollback

Spec == Init /\ [][Next]_vars

\* the steps of Run itself, the returns of its calls included
RunStep ==
    \/ RunGetSvc
    \/ DescribeCall
    \/ DescribeReturn
    \/ TerminateCall
    \/ TerminateReturn
    \/ CancelCall
    \/ CancelReturn

\* Run is scheduled until it ends and every call it issues returns
LiveSpec == Spec /\ WF_vars(RunStep)

\* ------------------------------------------------------------ type check
TypeOK ==
    /\ pc \in {"Start", "GatewayReady", "Describing", "InstancesResolved",
               "Terminating", "InstancesTerminated", "Cancelling", "Done",
               "Panicked"}
    /\ nodeName \in NodeNames
    /\ svc \in {"ec2", Nil}
    /\ describeInstanceOutput \in DescribeOutputs
    /\ rollbacks \in 0..MaxRollbacks

\* ------------------------------------------------- vocabulary of the claims
Range(seq) == {seq[i] : i \in DOMAIN seq}

\* the calls of one kind in the call log
CallsOf(op) == {i \in DOMAIN calls : calls[i].op = op}

\* the instances the lookup returned, over all its reservations
MatchedInstances ==
    UNION {Range(res.Instances) :
           res \in Range(describeInstanceOutput.Reservations)}

\* the lookup was issued and has returned an output and no error
LookupSucceeded ==
    /\ CallsOf("DescribeInstances") # {}
    /\ pc # "Describing"
    /\ lookupErr = NilErr
    /\ ~describeInstanceOutput.isNil

\* every returned instance carries its identifier
AllIdentified == \A inst \in MatchedInstances : inst.InstanceId # Nil

\* the termination was issued and has returned no error
TerminationSucceeded ==
    /\ CallsOf("TerminateInstances") # {}
    /\ pc # "Terminating"
    /\ termErr = NilErr

\* Run has returned to its caller
Returned == pc = "Done"

\* ------------------------------------------------------------------ claims
\* C1: when the lookup succeeds and returns zero matching instances, Run
\* returns nil and issues neither a termination nor a spot-cancellation call.
C1_NoneFoundIsSuccess ==
    (LookupSucceeded /\ MatchedInstances = {}) =>
        /\ Returned
        /\ ret = NilErr
        /\ CallsOf("TerminateInstances") = {}
        /\ CallsOf("CancelSpotInstanceRequests") = {}

\* C1 witness: Run has returned after a lookup whose reservations hold no
\* instance
C1_Witness ==
    /\ LookupSucceeded
    /\ MatchedInstances = {}
    /\ describeInstanceOutput.Reservations # <<>>
    /\ Returned

\* C2: when the lookup returns N >= 1 instances with their identifiers, Run
\* issues exactly one termination call (it is issued as soon as Run has left
\* InstancesResolved, and no second one ever is), and the identifiers of that
\* call are exactly the identifiers of the returned instances.
C2_OneTerminationOfAllInstances ==
    /\ Cardinality(CallsOf("TerminateInstances")) <= 1
    /\ (LookupSucceeded /\ MatchedInstances # {} /\ AllIdentified
          /\ pc # "InstancesResolved") =>
        /\ Cardinality(CallsOf("TerminateInstances")) = 1
        /\ \A i \in CallsOf("TerminateInstances") :
              Range(calls[i].arg) =
                  {inst.InstanceId : inst \in MatchedInstances}

\* C2 witness: Run has returned after terminating two different instances
\* that came in two reservations
C2_Witness ==
    /\ Returned
    /\ LookupSucceeded
    /\ AllIdentified
    /\ Len(describeInstanceOutput.Reservations) = 2
    /\ Cardinality({inst.InstanceId : inst \in MatchedInstances}) = 2
    /\ CallsOf("TerminateInstances") # {}

\* C3: the identifiers of every spot-cancellation call are exactly the
\* spot-request identifiers of the matched instances that have one.
C3_CancelsExactlyTheSpotRequests ==
    \A i \in CallsOf("CancelSpotInstanceRequests") :
        Range(calls[i].arg) =
            {inst.SpotInstanceRequestId :
                inst \in {m \in MatchedInstances :
                             m.SpotInstanceRequestId # Nil}}

\* C3 witness: a cancellation was issued after a lookup that returned an
\* instance with a spot request and an instance without
C3_Witness ==
    /\ CallsOf("CancelSpotInstanceRequests") # {}
    /\ \E a, b \in MatchedInstances :
          a.SpotInstanceRequestId # Nil /\ b.SpotInstanceRequestId = Nil

\* C4: when the termination succeeded, Run returns nil whether the
\* cancellation succeeds or fails.
C4_CancelFailureIsNotFatal ==
    (Returned /\ TerminationSucceeded) => ret = NilErr

\* C4 witness: Run has returned after a successful termination and a failed
\* cancellation
C4_Witness ==
    /\ Returned
    /\ TerminationSucceeded
    /\ cancelErr # NilErr

\* how a caller classifies the error Run returned: by the sentinel at its
\* root, else by the context put in front of its text
Classification(e) ==
    IF e = NilErr \/ e = NotReturned THEN "none"
    ELSE IF e.cause = "ErrAuthorization" THEN "Authorization"
    ELSE IF e.cause = "ErrDeleteNode" THEN "DeleteNode"
    ELSE IF Head(e.text) = "aws_delete_node terminate instance"
         THEN "Termination"
    ELSE "other"

\* C5: a failed construction makes Run return an Authorization error after
\* the constructor call only; a failed lookup makes Run return a DeleteNode
\* error with no termination or cancellation call issued.
C5_AuthorizationAndLookupFailures ==
    /\ svcErr # NilErr =>
          /\ Returned
          /\ Classification(ret) = "Authorization"
          /\ \A i \in DOMAIN calls : calls[i].op = "GetEC2"
    /\ lookupErr # NilErr =>
          /\ Returned
          /\ Classification(ret) = "DeleteNode"
          /\ CallsOf("TerminateInstances") = {}
          /\ CallsOf("CancelSpotInstanceRequests") = {}

\* C5 witness: Run has returned after a failed lookup
C5_Witness ==
    /\ Returned
    /\ lookupErr # NilErr
    /\ CallsOf("DescribeInstances") # {}

\* C6: when the termination call returns an error, Run returns a Termination
\* error, rooted in the call's error and neither an Authorization nor a
\* DeleteNode error, and no spot cancellation is attempted.
C6_TerminationFailureIsFatal ==
    termErr # NilErr =>
        /\ Returned
        /\ Classification(ret) = "Termination"
        /\ ret.cause = termErr.cause
        /\ CallsOf("CancelSpotInstanceRequests") = {}

\* C6 witness: Run has returned after a termination that failed with a
\* service error
C6_Witness ==
    /\ Returned
    /\ termErr \in ServiceErrs
    /\ CallsOf("TerminateInstances") # {}

\* C7: Rollback returns nil and issues no call, and leaves everything else
\* as it was, whatever Run did before.
C7_RollbackIsNoOp ==
    [][rollbacks' # rollbacks =>
          /\ rollbackRet' = NilErr
          /\ calls' = calls
          /\ UNCHANGED <<pc, ret, svc, instanceIDS, spotRequestIDs>>]_vars

\* C7 witness: Rollback has returned after a Run whose termination failed
C7_Witness ==
    /\ rollbacks > 0
    /\ rollbackRet = NilErr
    /\ Returned
    /\ termErr # NilErr

\* C8: when Run returns nil, no construction, lookup or termination has
\* failed, and either the lookup matched no instance or a termination call
\* naming every matched instance was issued and succeeded.
C8_NilMeansNodeGone ==
    (Returned /\ ret = NilErr) =>
        /\ svcErr = NilErr /\ lookupErr = NilErr /\ termErr = NilErr
        /\ LookupSucceeded
        /\ \/ MatchedInstances = {}
           \/ /\ TerminationSucceeded
              /\ \E i \in CallsOf("TerminateInstances") :
                    \A inst \in MatchedInstances :
                        /\ inst.InstanceId # Nil
                        /\ inst.InstanceId \in Range(calls[i].arg)

\* C8 witness: Run has returned nil after a lookup that matched two instances
C8_Witness ==
    /\ Returned
    /\ ret = NilErr
    /\ Cardinality(MatchedInstances) >= 2

\* the context was done while the call was in flight and the call returned
\* the context's error
AbortedInFlight(at, err) == ctxDoneAt = at /\ err = ErrRequestCanceled

\* C9 as stated: a lookup, termination or spot cancellation aborted by the
\* context makes Run return a non-nil error.
C9_EveryAbortedCallIsFatal ==
    (Returned /\ (\/ AbortedInFlight("Describing", lookupErr)
                  \/ AbortedInFlight("Terminating", termErr)
                  \/ AbortedInFlight("Cancelling", cancelErr)))
        => ret # NilErr

\* C9 amended: a lookup or termination aborted by the context makes Run
\* return a non-nil error; a spot cancellation aborted by the context is
\* logged and Run returns nil.
C9_AbortedLookupOrTerminationIsFatal ==
    /\ (Returned /\ (\/ AbortedInFlight("Describing", lookupErr)
                     \/ AbortedInFlight("Terminating", termErr)))
          => ret # NilErr /\ ret # NotReturned
    /\ (Returned /\ AbortedInFlight("Cancelling", cancelErr))
          => ret = NilErr

\* C9 witness: Run has returned after its termination call was aborted by the
\* context in flight
C9_Witness ==
    /\ Returned
    /\ AbortedInFlight("Terminating", termErr)

\* C10 as stated: whatever the constructor and the service return, Run ends
\* by returning nil or an error and never panics.
C10_RunNeverPanics == pc # "Panicked"

\* C11 as stated: on every outcome of Run the output sink has received at
\* least one line.
C11_EveryOutcomeReachesTheSink == Returned => Len(sink) >= 1

\* the order in which one invocation issues its calls
CallOrder == <<"GetEC2", "DescribeInstances", "TerminateInstances",
               "CancelSpotInstanceRequests">>

\* how many calls Run has issued at each of its positions
CallsIssuedAt ==
    [Start |-> {0}, GatewayReady |-> {1}, Describing |-> {2},
     InstancesResolved |-> {2}, Terminating |-> {3},
     InstancesTerminated |-> {3}, Cancelling |-> {4}, Panicked |-> {2},
     Done |-> 1..4]

\* C12: the calls of one invocation are a prefix of construction, lookup,
\* termination, cancellation, each issued at most once and at its position of
\* the state machine; the lookup is issued only on a constructed Gateway, the
\* termination only after a successful lookup and the cancellation only after
\* a successful termination.
C12_CallsFollowTheStateMachine ==
    /\ Len(calls) <= Len(CallOrder)
    /\ \A i \in DOMAIN calls : calls[i].op = CallOrder[i]
    /\ Len(calls) \in CallsIssuedAt[pc]
    /\ CallsOf("DescribeInstances") # {} => svcErr = NilErr /\ svc # Nil
    /\ CallsOf("TerminateInstances") # {} => LookupSucceeded
    /\ CallsOf("CancelSpotInstanceRequests") # {} => TerminationSucceeded

\* C12 witness: Run has returned after issuing all four calls
C12_Witness ==
    /\ Returned
    /\ Len(calls) = 4
    /\ calls[4].op = "CancelSpotInstanceRequests"

\* C13: after a lookup that returned N >= 1 instances and a successful
\* termination Run issues exactly one spot cancellation (it is issued as soon
\* as Run has left InstancesTerminated, and no second one ever is); when no
\* matched instance has a spot request the call carries no identifier.
C13_OneCancellationEvenWhenEmpty ==
    /\ Cardinality(CallsOf("CancelSpotInstanceRequests")) <= 1
    /\ (LookupSucceeded /\ MatchedInstances # {} /\ TerminationSucceeded
          /\ pc # "InstancesTerminated") =>
        /\ Cardinality(CallsOf("CancelSpotInstanceRequests")) = 1
        /\ (\A m \in MatchedInstances : m.SpotInstanceRequestId = Nil) =>
              \A i \in CallsOf("CancelSpotInstanceRequests") :
                  calls[i].arg = <<>>

\* C13 witness: Run has returned after a cancellation call without
\* identifiers
C13_Witness ==
    /\ Returned
    /\ TerminationSucceeded
    /\ MatchedInstances # {}
    /\ \E i \in CallsOf("CancelSpotInstanceRequests") : calls[i].arg = <<>>

\* C16 as stated: when every call Run issues returns, Run eventually returns
\* to its caller, after at most one construction and three service calls.
C16_RunEventuallyReturns == <>(Returned /\ Len(calls) <= 4)

\* every invocation ends, by a return or by a panic, within four calls
RunEventuallyEnds == <>(pc \in {"Done", "Panicked"} /\ Len(calls) <= 4)

\* ------------------------------------- several invocations on one provider
\* The engine runs the step for several nodes, one after the other or at the
\* same time, on a provider that holds the instances: a lookup returns the
\* running instances tagged with the node name, a successful termination
\* removes the named instances, a successful cancellation closes the named
\* spot requests.  Every invocation has its own locals; the step itself holds
\* nothing but getSvc.
RunIds == 1..MaxRuns

\* an instance as the provider holds it: an ec2.Instance and its node name tag
CloudInstances == [InstanceId : InstanceIdSet,
                   SpotInstanceRequestId : SpotRequestIdSet \cup {Nil},
                   node : NodeNames]

\* the sets of instances a provider can hold: identifiers are unique
Clouds ==
    {c \in SUBSET CloudInstances :
        \A a, b \in c : a.InstanceId = b.InstanceId => a = b}

\* the locals of an invocation of Run that has not started
NewRun(name) ==
    [pc |-> "Start", nodeName |-> name, svcErr |-> NilErr,
     describeInstanceOutput |-> NilOutput, lookupErr |-> NilErr,
     termErr |-> NilErr, cancelErr |-> NilErr, instanceIDS |-> <<>>,
     spotRequestIDs |-> <<>>, calls |-> <<>>, ret |-> NotReturned,
     followed |-> {}]

FleetInit ==
    /\ InitRun
    /\ nodeName = "worker-3"
    /\ cloud0 \in Clouds
    /\ cloud = cloud0
    /\ spotRequests = {m.SpotInstanceRequestId : m \in cloud0} \ {Nil}
    /\ \E names \in [RunIds -> NodeNames] :
          runs = [i \in RunIds |-> NewRun(names[i])]

\* the running instances that carry the node name tag
Matching(c, name) == {m \in c : m.node = name}

\* the orders in which a set can be listed
Orders(S) ==
    {f \in [1..Cardinality(S) -> S] :
        \A a, b \in 1..Cardinality(S) : f[a] = f[b] => a = b}

\* what the provider answers to the lookup of a node name: the matching
\* instances in some order, one reservation each
LookupOutputs(c, name) ==
    {[isNil |-> FALSE,
      Reservations |->
          [k \in DOMAIN f |->
              [Instances |->
                  <<[InstanceId |-> f[k].InstanceId,
                     SpotInstanceRequestId |-> f[k].SpotInstanceRequestId]>>]]] :
        f \in Orders(Matching(c, name))}

\* the invocations that have returned nil
Succeeded == {k \in RunIds : runs[k].pc = "Done" /\ runs[k].ret = NilErr}

\* invocation i enters Run and calls getSvc
FleetRunGetSvc(i) ==
    /\ runs[i].pc = "Start"
    /\ \E fnErr \in ConstructErrs \cup {NilErr} :
          LET r == getSvc("ec2", fnErr) IN
          runs' = [runs EXCEPT
              ![i].followed = Succeeded,
              ![i].calls = Append(@, Call("GetEC2", <<>>)),
              ![i].svcErr = r.err,
              ![i].ret = IF r.err # NilErr THEN AuthorizationFailure(r.err)
                         ELSE @,
              ![i].pc = IF r.err # NilErr THEN "Done" ELSE "GatewayReady"]
    /\ UNCHANGED <<cloud0, cloud, spotRequests>>
    /\ UNCHANGED runVars

\* invocation i issues its lookup
FleetDescribeCall(i) ==
    /\ runs[i].pc = "GatewayReady"
    /\ runs' = [runs EXCEPT
          ![i].calls = Append(@, Call("DescribeInstances",
                                      <<runs[i].nodeName>>)),
          ![i].pc = "Describing"]
    /\ UNCHANGED <<cloud0, cloud, spotRequests>>
    /\ UNCHANGED runVars

\* the lookup of invocation i returns an error or the provider's answer
FleetDescribeReturn(i) ==
    /\ runs[i].pc = "Describing"
    /\ \/ \E err \in ServiceErrs :
             runs' = [runs EXCEPT ![i].lookupErr = err,
                                  ![i].ret = LookupFailure(err),
                                  ![i].pc = "Done"]
       \/ \E out \in LookupOutputs(cloud, runs[i].nodeName) :
             LET c == Collect(out) IN
             runs' = [runs EXCEPT
                 ![i].describeInstanceOutput = out,
                 ![i].instanceIDS = c.ids,
                 ![i].spotRequestIDs = c.spots,
                 ![i].ret = IF ~c.panic /\ NoneFound(c.ids) THEN NilErr
                            ELSE @,
                 ![i].pc = IF c.panic THEN "Panicked"
                           ELSE IF NoneFound(c.ids) THEN "Done"
                           ELSE "InstancesResolved"]
    /\ UNCHANGED <<cloud0, cloud, spotRequests>>
    /\ UNCHANGED runVars

\* FleetTerminateCall that names the identifiers collected by any invocation,
\* as if the slice were kept in the step that all invocations share
FleetTerminateCallShared(i) ==
    /\ runs[i].pc = "InstancesResolved"
    /\ \E j \in RunIds :
          runs' = [runs EXCEPT
              ![i].calls = Append(@, Call("TerminateInstances",
                                          runs[j].instanceIDS)),
              ![i].pc = "Terminating"]
    /\ UNCHANGED <<cloud0, cloud, spotRequests>>
    /\ UNCHANGED runVars

\* invocation i issues its termination
FleetTerminateCall(i) ==
    /\ runs[i].pc = "InstancesResolved"
    /\ runs' = [runs EXCEPT
          ![i].calls = Append(@, Call("TerminateInstances",
                                      runs[i].instanceIDS)),
          ![i].pc = "Terminating"]
    /\ UNCHANGED <<cloud0, cloud, spotRequests>>
    /\ UNCHANGED runVars

\* the identifiers named by the last call of invocation i
LastArg(i) == {runs[i].calls[k].arg[n] :
                  k \in {Len(runs[i].calls)},
                  n \in DOMAIN runs[i].calls[Len(runs[i].calls)].arg}

\* the termination of invocation i returns: on success the named instances
\* are gone, on an error any of them may be
FleetTerminateReturn(i) ==
    /\ runs[i].pc = "Terminating"
    /\ \/ \E err \in ServiceErrs, gone \in SUBSET LastArg(i) :
             /\ runs' = [runs EXCEPT ![i].termErr = err,
                                     ![i].ret = TerminateFailure(err),
                                     ![i].pc = "Done"]
             /\ cloud' = {m \in cloud : m.InstanceId \notin gone}
       \/ /\ runs' = [runs EXCEPT ![i].pc = "InstancesTerminated"]
          /\ cloud' = {m \in cloud : m.InstanceId \notin LastArg(i)}
    /\ UNCHANGED <<cloud0, spotRequests>>
    /\ UNCHANGED runVars

\* invocation i issues its spot cancellation
FleetCancelCall(i) ==
    /\ runs[i].pc = "InstancesTerminated"
    /\ runs' = [runs EXCEPT
          ![i].calls = Append(@, Call("CancelSpotInstanceRequests",
                                      runs[i].spotRequestIDs)),
          ![i].pc = "Cancelling"]
    /\ UNCHANGED <<cloud0, cloud, spotRequests>>
    /\ UNCHANGED runVars

\* the cancellation of invocation i returns; Run returns nil either way
FleetCancelReturn(i) ==
    /\ runs[i].pc = "Cancelling"
    /\ \/ \E err \in ServiceErrs :
             /\ runs' = [runs EXCEPT ![i].cancelErr = err,
                                     ![i].ret = NilErr,
                                     ![i].pc = "Done"]
             /\ spotRequests' = spotRequests
       \/ /\ runs' = [runs EXCEPT ![i].ret = NilErr, ![i].pc = "Done"]
          /\ spotRequests' = spotRequests \ LastArg(i)
    /\ UNCHANGED <<cloud0, cloud>>
    /\ UNCHANGED runVars

FleetNext ==
    \/ \E i \in RunIds : FleetRunGetSvc(i)
    \/ \E i \in RunIds : FleetDescribeCall(i)
    \/ \E i \in RunIds : FleetDescribeReturn(i)
    \/ \E i \in RunIds : FleetTerminateCall(i)
    \/ \E i \in RunIds : FleetTerminateReturn(i)
    \/ \E i \in RunIds : FleetCancelCall(i)
    \/ \E i \in RunIds : FleetCancelReturn(i)

FleetSpec == FleetInit /\ [][FleetNext]_vars

FleetTypeOK ==
    /\ cloud \in Clouds
    /\ cloud \subseteq cloud0
    /\ DOMAIN runs = RunIds
    /\ \A i \in RunIds : runs[i].nodeName \in NodeNames

\* ---------------------------------------- claims about several invocations
\* the calls of one kind issued by invocation i
RunCallsOf(i, op) ==
    {k \in DOMAIN runs[i].calls : runs[i].calls[k].op = op}

\* the instances the lookup of invocation i returned
RunMatched(i) ==
    UNION {Range(res.Instances) :
           res \in Range(runs[i].describeInstanceOutput.Reservations)}

\* the lookup of invocation i was issued and has returned no error
RunLookupSucceeded(i) ==
    /\ RunCallsOf(i, "DescribeInstances") # {}
    /\ runs[i].pc # "Describing"
    /\ runs[i].lookupErr = NilErr

\* no other invocation is for the node of invocation i
OnlyRunOfItsNode(i) ==
    \A j \in RunIds \ {i} : runs[j].nodeName # runs[i].nodeName

\* the identifier and spot request of an instance the provider holds
AsReturned(m) == [InstanceId |-> m.InstanceId,
                  SpotInstanceRequestId |-> m.SpotInstanceRequestId]

\* the kind of value invocation i returns when it runs alone on the provider
\* as it was at the start, given the errors its own calls returned
AloneClassification(i) ==
    IF runs[i].svcErr # NilErr THEN "Authorization"
    ELSE IF runs[i].lookupErr # NilErr THEN "DeleteNode"
    ELSE IF Matching(cloud0, runs[i].nodeName) = {} THEN "none"
    ELSE IF runs[i].termErr # NilErr THEN "Termination"
    ELSE "none"

\* C14: every invocation constructs its Gateway exactly once and names in
\* its termination and cancellation only identifiers its own lookup
\* returned; an invocation whose node no other invocation is for gets from
\* its lookup, and returns, what it would if it ran alone, however the
\* invocations interleave.
C14_InvocationsShareNoState ==
    \A i \in RunIds :
        /\ Cardinality(RunCallsOf(i, "GetEC2")) =
              (IF runs[i].pc = "Start" THEN 0 ELSE 1)
        /\ \A k \in RunCallsOf(i, "TerminateInstances") :
              Range(runs[i].calls[k].arg) \subseteq
                  {m.InstanceId : m \in RunMatched(i)}
        /\ \A k \in RunCallsOf(i, "CancelSpotInstanceRequests") :
              Range(runs[i].calls[k].arg) \subseteq
                  {m.SpotInstanceRequestId : m \in RunMatched(i)} \ {Nil}
        /\ OnlyRunOfItsNode(i) =>
              /\ RunLookupSucceeded(i) =>
                    RunMatched(i) =
                        {AsReturned(m) :
                            m \in Matching(cloud0, runs[i].nodeName)}
              /\ runs[i].pc = "Done" =>
                    /\ runs[i].ret # NotReturned
                    /\ Classification(runs[i].ret) = AloneClassification(i)

\* C14 witness: two invocations for different nodes that overlapped in time
\* have both terminated instances and returned nil
C14_Witness ==
    \E i, j \in RunIds :
        /\ runs[i].nodeName # runs[j].nodeName
        /\ i \notin runs[j].followed /\ j \notin runs[i].followed
        /\ runs[i].pc = "Done" /\ runs[i].ret = NilErr
        /\ runs[j].pc = "Done" /\ runs[j].ret = NilErr
        /\ RunCallsOf(i, "TerminateInstances") # {}
        /\ RunCallsOf(j, "TerminateInstances") # {}

\* invocation j started after invocation i had returned nil for the same
\* node
Repeats(j, i) ==
    /\ i \in runs[j].followed
    /\ runs[i].nodeName = runs[j].nodeName

\* C15 as stated: a Run that follows a successful Run for the same node
\* returns nil and issues no termination and no cancellation.
C15_RepeatedRunReturnsNil ==
    \A i, j \in RunIds :
        (Repeats(j, i) /\ runs[j].pc = "Done") =>
            /\ runs[j].ret = NilErr
            /\ RunCallsOf(j, "TerminateInstances") = {}
            /\ RunCallsOf(j, "CancelSpotInstanceRequests") = {}

\* C15 amended: once a Run for a node has returned nil the provider holds no
\* instance of that node, and a Run that follows it for the same node finds
\* none, issues no termination and no cancellation, and returns nil when its
\* own construction and lookup succeed.
C15_RepeatedRunIsNoOp ==
    /\ \A i \in Succeeded : Matching(cloud, runs[i].nodeName) = {}
    /\ \A i, j \in RunIds :
          Repeats(j, i) =>
              /\ RunCallsOf(j, "TerminateInstances") = {}
              /\ RunCallsOf(j, "CancelSpotInstanceRequests") = {}
              /\ RunLookupSucceeded(j) => RunMatched(j) = {}
              /\ (runs[j].pc = "Done" /\ runs[j].svcErr = NilErr
                    /\ runs[j].lookupErr = NilErr) => runs[j].ret = NilErr

\* C15 witness: a Run has returned nil after a Run for the same node that
\* had terminated instances and returned nil
C15_Witness ==
    \E i, j \in RunIds :
        /\ Repeats(j, i)
        /\ RunCallsOf(i, "TerminateInstances") # {}
        /\ runs[j].pc = "Done"
        /\ runs[j].ret = NilErr
        /\ RunLookupSucceeded(j)

====
